---- MODULE Spec2Model ----
(***************************************************************************)
(* Request lifecycle of the Financial Document Analyzer (src/main.py):     *)
(* POST /analyze with its validation, duplicate detection, record          *)
(* creation, text extraction, pipeline invocation and status tracking      *)
(* against the relational store (src/database/models.py).                  *)
(*                                                                         *)
(* Python strings are modelled as sequences of characters or of message    *)
(* pieces; a nullable column is <<>> (NULL) or <<v>> (the value v).        *)
(* The store variables (users, analyses) hold the COMMITTED rows; every    *)
(* action ends at a db.commit(), at an await, or at the handler's return,  *)
(* so requests interleave at least as finely as the event loop allows.     *)
(* Spec lets every db.commit() succeed; SpecStoreFaults lets any of them   *)
(* raise, the failed transaction being rolled back.                        *)
(***************************************************************************)
EXTENDS Integers, Sequences, FiniteSets, TLC

\* ---------------------------------------------------------------- bounds
MaxRequests == 2       \* requests issued in one behaviour
MaxPages == 2          \* pages of an uploaded PDF
HoursPerTick == 24     \* granularity of the clock
MaxTime == 48          \* the clock stops advancing here
MaxResubmits == 3      \* uploads of one document by one user in one behaviour
MaxRecords == 2        \* records created through the DatabaseManager

\* ------------------------------------------------------- program constants
WindowHours == 24
Progress_Created == 10
Progress_Extracted == 30
Progress_Done == 100

\* the handler invocations that can be in flight at the same time
Slots == {1, 2}

\* ------------------------------------------------------------ input sets
Filenames == { <<"R", ".", "P", "d", "F">>,
               <<"p", "d", "f", ".", "t", "x", "t">>,
               <<"p", "d", "f">> }
BodyList == << <<1>>, <<2>> >>
Contents == { <<>> } \cup { BodyList[i] : i \in DOMAIN BodyList }
EmailList == << "ann@example.com", "bob@example.com" >>
Emails == { EmailList[i] : i \in DOMAIN EmailList }
UserNames == { "Guest User" }
DefaultQuery == <<"Analyze this financial document for investment insights">>
\* names and queries under which one document can be uploaded again
PdfNames == { <<"R", ".", "P", "d", "F">>, <<"a", ".", "p", "d", "f">> }
Queries == { <<" ">>, <<"q", " ">> }
PageTexts == { <<>>, <<" ">>, <<"t">> }
CrewReports == { <<"report">> }
CrewErrors == { <<"rate limit">> }
DbErrors == { <<"database is locked">> }

\* ------------------------------------------------------- string helpers
\* str.lower() on one character
LowerChar(c) ==
    CASE c = "R" -> "r"
      [] c = "P" -> "p"
      [] c = "D" -> "d"
      [] c = "F" -> "f"
      [] c = "T" -> "t"
      [] c = "X" -> "x"
      [] OTHER -> c

Lower(s) == [i \in 1..Len(s) |-> LowerChar(s[i])]

\* variant: the suffix is compared without its first character
EndsWith_NoDot(s, suf) ==
    /\ Len(s) >= Len(suf) - 1
    /\ SubSeq(s, Len(s) - Len(suf) + 2, Len(s)) = Tail(suf)

EndsWith(s, suf) ==
    /\ Len(s) >= Len(suf)
    /\ SubSeq(s, Len(s) - Len(suf) + 1, Len(s)) = suf

PdfSuffix == <<".", "p", "d", "f">>

\* variant: only the blank counts as white space
IsWhitespace_BlankOnly(c) == c = " "

IsWhitespace(c) == c \in {" ", "\n"}

RECURSIVE LStrip(_)
LStrip(s) ==
    IF s = <<>> THEN <<>>
    ELSE IF IsWhitespace(Head(s)) THEN LStrip(Tail(s)) ELSE s

RECURSIVE RStrip(_)
RStrip(s) ==
    IF s = <<>> THEN <<>>
    ELSE IF IsWhitespace(s[Len(s)]) THEN RStrip(SubSeq(s, 1, Len(s) - 1)) ELSE s

Strip(s) == RStrip(LStrip(s))

\* "\n".join(parts)
RECURSIVE Join(_)
Join(parts) ==
    IF parts = <<>> THEN <<>>
    ELSE IF Len(parts) = 1 THEN parts[1]
    ELSE parts[1] \o <<"\n">> \o Join(Tail(parts))

\* ------------------------------------------------------------ exceptions
HTTPException(code, detail) == [http |-> TRUE, code |-> code, msg |-> detail]
PlainException(msg) == [http |-> FALSE, code |-> "", msg |-> msg]
NoException == [http |-> FALSE, code |-> "", msg |-> <<"-">>]

\* variant: repr(e) in place of str(e)
StrExc_Repr(e) == <<(IF e.http THEN "HTTPException(" ELSE "Exception(")>> \o e.msg \o <<")">>

\* str(e): "<status_code>: <detail>" for an HTTPException, the message otherwise
StrExc(e) == IF e.http THEN <<e.code, ": ">> \o e.msg ELSE e.msg

\* ------------------------------------------------------ collaborators
\* calculate_file_hash: SHA-256 of the bytes, idealised as collision-free
calculate_file_hash(content) == <<"sha256">> \o content

\* A PDF as pypdf sees it: the reader fails, or a sequence of pages each of
\* which raises or yields a text (possibly None/empty).
PageOutcomes == [raises : {FALSE}, text : PageTexts] \cup
                [raises : {TRUE}, text : {<<>>}]
PageSeqs == UNION { [1..n -> PageOutcomes] : n \in 0..MaxPages }
PdfDocs == [readable : {TRUE}, pages : PageSeqs] \cup
           [readable : {FALSE}, pages : {<<>>}]

RECURSIVE PagesText(_)
PagesText(pages) ==
    IF pages = <<>> THEN <<>>
    ELSE IF Head(pages).raises THEN <<(<<>>)>> \o PagesText(Tail(pages))
    ELSE IF Head(pages).text # <<>> THEN <<Head(pages).text>> \o PagesText(Tail(pages))
    ELSE PagesText(Tail(pages))

\* _extract_pdf_text: [ok, text] or [not ok, exc]
ExtractPdfText(pdf) ==
    IF pdf.readable
    THEN [ok |-> TRUE, text |-> Join(PagesText(pdf.pages)), exc |-> NoException]
    ELSE [ok |-> FALSE, text |-> <<>>,
          exc |-> HTTPException("400", <<"Error reading PDF: ", "unreadable">>)]

\* everything _extract_pdf_text can return or raise
ExtractResults == { ExtractPdfText(pdf) : pdf \in PdfDocs }

\* ------------------------------------------------------------------ state
VARIABLES users,      \* committed rows of table users, by id
          analyses,   \* committed rows of table analysis_results, by id
          now,        \* datetime.utcnow(), in hours
          files,      \* names of the files in data/
          started,    \* number of requests received so far
          req,        \* per slot: the handler's position and locals
          last,       \* what the most recently returned request did and answered
          got         \* the answer of a call other than POST /analyze, until
                      \* its caller has taken it

vars == <<users, analyses, now, files, started, req, last, got>>

\* no answer is waiting for its caller
NoCall == [op |-> "", args |-> <<>>, code |-> 0, payload |-> <<>>]

NoResponse == [code |-> 0, status |-> "", analysis_id |-> 0]

\* The handler's position and locals (filename .. exc), followed by a log of
\* what the request has done so far: whether its duplicate check found
\* nothing, the rows it inserted, its calls of the collaborators, what the
\* extraction yielded (ExtractKind) and what run_crew raised.
IdleReq == [pc |-> "idle", filename |-> <<>>, query |-> <<>>,
            file_id |-> 0, content |-> <<>>,
            email |-> "", user_name |-> "", user |-> 0, rec |-> 0,
            exc |-> NoException,
            dupMiss |-> FALSE, userInserts |-> 0, inserts |-> 0,
            extractCalls |-> 0, crewCalls |-> 0,
            extracted |-> "none", crewRaised |-> <<>>]

LogFields == {"filename", "query", "rec", "dupMiss", "userInserts", "inserts",
              "extractCalls", "crewCalls", "extracted", "crewRaised"}

\* a returned request: its log, the size of its body and its response
Returned(rq, response) ==
    [f \in LogFields \cup {"size", "resp"} |->
       IF f = "resp" THEN response
       ELSE IF f = "size" THEN Len(rq.content)
       ELSE rq[f]]

NoneReturned == Returned(IdleReq, NoResponse)

Init ==
    /\ users = <<>>
    /\ analyses = <<>>
    /\ now = 0
    /\ files = {}
    /\ started = 0
    /\ req = [s \in Slots |-> IdleReq]
    /\ last = NoneReturned
    /\ got = NoCall


\* ------------------------------------------------------------ store helpers
\* db.query(User).filter(User.email == email).first(): the row's id, 0 if none
UserByEmail(email) ==
    IF \E i \in 1..Len(users) : users[i].email = email
    THEN CHOOSE i \in 1..Len(users) : users[i].email = email
    ELSE 0

\* variant: the filter asks for the column's default status
DuplicateFilter_Pending(row, user, file_hash) ==
    /\ row.user_id = user
    /\ row.file_hash = file_hash
    /\ row.created_at >= now - WindowHours
    /\ row.status = "pending"

\* variant: a record created exactly at the cutoff is left out
DuplicateFilter_StrictCutoff(row, user, file_hash) ==
    /\ row.user_id = user
    /\ row.file_hash = file_hash
    /\ row.created_at > now - WindowHours
    /\ row.status = "completed"

\* variant: the filter does not look at the status
DuplicateFilter_AnyStatus(row, user, file_hash) ==
    /\ row.user_id = user
    /\ row.file_hash = file_hash
    /\ row.created_at >= now - WindowHours

\* The duplicate query's filter: same user, same hash, created within the
\* window, status completed.
DuplicateFilter(row, user, file_hash) ==
    /\ row.user_id = user
    /\ row.file_hash = file_hash
    /\ row.created_at >= now - WindowHours
    /\ row.status = "completed"

DuplicateMatches(user, file_hash) ==
    { i \in 1..Len(analyses) : DuplicateFilter(analyses[i], user, file_hash) }

\* AnalysisResult(...) as inserted by the handler; the column defaults of
\* models.py fill what the handler does not pass.
NewAnalysis(rq, user) ==
    [ user_id |-> user,
      original_filename |-> rq.filename,
      query |-> IF Strip(rq.query) # <<>> THEN Strip(rq.query) ELSE DefaultQuery,
      file_size |-> Len(rq.content),
      file_hash |-> calculate_file_hash(rq.content),
      status |-> "processing",
      progress |-> Progress_Created,
      analysis_report |-> <<>>,
      error_message |-> <<>>,
      created_at |-> now,
      completed_at |-> <<>> ]

\* variant: the failure also resets the progress
MarkFailed_ResetsProgress(row, message) ==
    [row EXCEPT !.status = "failed", !.error_message = <<message>>, !.progress = 0]

\* variant: the status assignment is missing
MarkFailed_StaysProcessing(row, message) ==
    [row EXCEPT !.error_message = <<message>>]

\* variant: the message assignment is missing
MarkFailed_NoMessage(row, message) ==
    [row EXCEPT !.status = "failed"]

\* analysis.status = "failed"; analysis.error_message = str(e)
MarkFailed(row, message) ==
    [row EXCEPT !.status = "failed", !.error_message = <<message>>]

\* analysis.progress = 30
MarkExtracted(row) == [row EXCEPT !.progress = Progress_Extracted]

\* variant: progress is left where it was
MarkCompleted_NoProgress(row, report) ==
    [row EXCEPT !.analysis_report = <<report>>,
                !.status = "completed",
                !.completed_at = <<now>>]

\* variant: completed_at is left NULL
MarkCompleted_NoTimestamp(row, report) ==
    [row EXCEPT !.analysis_report = <<report>>,
                !.status = "completed",
                !.progress = Progress_Done]

\* the completion update of the handler
MarkCompleted(row, report) ==
    [row EXCEPT !.analysis_report = <<report>>,
                !.status = "completed",
                !.progress = Progress_Done,
                !.completed_at = <<now>>]

\* ------------------------------------------------------- request helpers
Response(code, status, id) ==
    [code |-> code, status |-> status, analysis_id |-> id]

StatusCode(e) == IF e.code = "400" THEN 400 ELSE 500

\* what the client receives when exception e leaves the handler's try block:
\* an HTTPException is re-raised, anything else is wrapped into a 500
ErrorResponse(e) ==
    IF e.http THEN Response(StatusCode(e), "", 0) ELSE Response(500, "", 0)

\* variant: the finally block is missing
Return_KeepsFile(s, rq, response) ==
    /\ req' = [req EXCEPT ![s] = IdleReq]
    /\ last' = Returned(rq, response)
    /\ files' = files

\* the request leaves the handler: the finally block removes the temporary
\* file and the response goes out
Return(s, rq, response) ==
    /\ req' = [req EXCEPT ![s] = IdleReq]
    /\ last' = Returned(rq, response)
    /\ files' = files \ {rq.file_id}

\* outcome of a db.commit(): <<>> when it succeeds, <<message>> when it raises
CommitOk(dberr) == dberr = <<>>
CommitError(dberr) == PlainException(dberr[1])

\* str(uuid.uuid4()): a name no request in flight and no file on disk carries
\* (the least such, names being interchangeable)
FileIdsInUse == files \cup { req[t].file_id : t \in Slots }
FreshFileId == CHOOSE n \in 1..(Cardinality(FileIdsInUse) + 1) :
                 /\ n \notin FileIdsInUse
                 /\ \A m \in 1..(n - 1) : m \in FileIdsInUse

\* ---------------------------------------------------------------- actions
\* POST /analyze arrives: the file type is validated, then the handler awaits
\* the body.
Receive(s, filename, query, content, email, user_name) ==
    /\ req[s].pc = "idle"
    /\ \A t \in 1..(s - 1) : req[t].pc # "idle"
    /\ started' = started + 1
    /\ LET rq == [IdleReq EXCEPT !.filename = filename, !.query = query,
                                 !.file_id = FreshFileId,
                                 !.content = content, !.email = email,
                                 !.user_name = user_name]
       IN IF ~ EndsWith(Lower(filename), PdfSuffix)
          THEN /\ last' = Returned(rq, ErrorResponse(HTTPException("400",
                                        <<"Only PDF files are supported">>)))
               /\ UNCHANGED req
          ELSE /\ req' = [req EXCEPT ![s] = [rq EXCEPT !.pc = "reading"]]
               /\ UNCHANGED last
    /\ UNCHANGED <<users, analyses, now, files, got>>

\* The body is read; an empty body is rejected; otherwise the file is written
\* and hashed and the user is fetched or created.
ReadBody(s, dberr) ==
    /\ req[s].pc = "reading"
    /\ LET rq == req[s]
           u == UserByEmail(rq.email)
       IN IF rq.content = <<>>
          THEN /\ dberr = <<>>
               /\ Return(s, rq, ErrorResponse(HTTPException("400", <<"Uploaded file is empty">>)))
               /\ UNCHANGED users
          ELSE IF u # 0
          THEN /\ dberr = <<>>
               /\ req' = [req EXCEPT ![s] = [rq EXCEPT !.pc = "dupcheck", !.user = u]]
               /\ files' = files \cup {rq.file_id}
               /\ UNCHANGED <<users, last>>
          ELSE IF CommitOk(dberr)
          THEN /\ users' = Append(users, [email |-> rq.email, full_name |-> rq.user_name])
               /\ req' = [req EXCEPT ![s] = [rq EXCEPT !.pc = "dupcheck",
                                                       !.user = Len(users) + 1,
                                                       !.userInserts = @ + 1]]
               /\ files' = files \cup {rq.file_id}
               /\ UNCHANGED last
          ELSE /\ Return(s, rq, ErrorResponse(CommitError(dberr)))
               /\ UNCHANGED users
    /\ UNCHANGED <<analyses, now, started, got>>

\* variant: the record is inserted before the duplicate check
DupCheck_InsertFirst(s, dberr) ==
    /\ req[s].pc = "dupcheck"
    /\ dberr = <<>>
    /\ LET matches == DuplicateMatches(req[s].user, calculate_file_hash(req[s].content))
           rq == [req[s] EXCEPT !.dupMiss = (matches = {}),
                                !.rec = Len(analyses) + 1,
                                !.inserts = @ + 1]
       IN /\ analyses' = Append(analyses, NewAnalysis(rq, rq.user))
          /\ IF matches # {}
             THEN \E m \in matches :
                    Return(s, rq, Response(200, "duplicate_found", m))
             ELSE /\ req' = [req EXCEPT ![s] = [rq EXCEPT !.pc = "extract"]]
                  /\ UNCHANGED <<files, last>>
    /\ UNCHANGED <<users, now, started, got>>

\* The duplicate check, then either the short-circuit or the record's insert.
DupCheck(s, dberr) ==
    /\ req[s].pc = "dupcheck"
    /\ LET matches == DuplicateMatches(req[s].user, calculate_file_hash(req[s].content))
           rq == [req[s] EXCEPT !.dupMiss = (matches = {})]
       IN IF matches # {}
          THEN /\ dberr = <<>>
               /\ \E m \in matches :
                    Return(s, rq, Response(200, "duplicate_found", m))
               /\ UNCHANGED analyses
          ELSE IF CommitOk(dberr)
          THEN /\ analyses' = Append(analyses, NewAnalysis(rq, rq.user))
               /\ req' = [req EXCEPT ![s] = [rq EXCEPT !.pc = "extract",
                                                       !.rec = Len(analyses) + 1,
                                                       !.inserts = @ + 1]]
               /\ UNCHANGED <<files, last>>
          ELSE /\ Return(s, rq, ErrorResponse(CommitError(dberr)))
               /\ UNCHANGED analyses
    /\ UNCHANGED <<users, now, started, got>>


NoReadableText == <<"Uploaded PDF contains no readable text">>

\* what an extraction yielded: it raised, or its text has no character other
\* than white space, or it has some
ExtractKind(res) ==
    IF ~ res.ok THEN "raised"
    ELSE IF \A i \in 1..Len(res.text) : res.text[i] \in {" ", "\n"} THEN "blank"
    ELSE "text"

CrewOutcomes == [ok : {TRUE}, report : CrewReports, exc : {NoException}] \cup
                [ok : {FALSE}, report : {<<>>},
                 exc : {PlainException(m) : m \in CrewErrors}]

\* variant: run_crew is called in the handler itself, not in a worker thread
Extract_CrewInline(s, res, dberr) ==
    /\ req[s].pc = "extract"
    /\ dberr = <<>>
    /\ LET rq == [req[s] EXCEPT !.extractCalls = @ + 1,
                                !.extracted = ExtractKind(res)]
       IN IF ~ res.ok
          THEN /\ req' = [req EXCEPT ![s] = [rq EXCEPT !.pc = "extract_except",
                                                       !.exc = res.exc]]
               /\ UNCHANGED <<analyses, files, last>>
          ELSE IF Strip(res.text) = <<>>
          THEN /\ analyses' = [analyses EXCEPT ![rq.rec] = MarkFailed(@, NoReadableText)]
               /\ req' = [req EXCEPT ![s] =
                            [rq EXCEPT !.pc = "extract_except",
                                       !.exc = HTTPException("400", NoReadableText)]]
               /\ UNCHANGED <<files, last>>
          ELSE \E outcome \in CrewOutcomes :
                 IF outcome.ok
                 THEN /\ analyses' = [analyses EXCEPT ![rq.rec] =
                                        MarkCompleted(MarkExtracted(@), outcome.report)]
                      /\ Return(s, [rq EXCEPT !.crewCalls = @ + 1],
                                Response(200, "success", rq.rec))
                 ELSE /\ analyses' = [analyses EXCEPT ![rq.rec] = MarkExtracted(@)]
                      /\ req' = [req EXCEPT ![s] =
                                   [rq EXCEPT !.pc = "crew_except",
                                              !.crewCalls = @ + 1,
                                              !.crewRaised = <<outcome.exc.msg>>,
                                              !.exc = outcome.exc]]
                      /\ UNCHANGED <<files, last>>
    /\ UNCHANGED <<users, now, started, got>>

\* Text extraction. Unreadable PDF: the exception reaches the inner except.
\* Empty text: the record is committed as failed and a 400 is raised into the
\* same except. Otherwise progress 30 is committed and run_crew is handed to
\* a worker thread.
Extract(s, res, dberr) ==
    /\ req[s].pc = "extract"
    /\ LET rq == [req[s] EXCEPT !.extractCalls = @ + 1,
                                !.extracted = ExtractKind(res)]
       IN IF ~ res.ok
          THEN /\ dberr = <<>>
               /\ req' = [req EXCEPT ![s] = [rq EXCEPT !.pc = "extract_except",
                                                       !.exc = res.exc]]
               /\ UNCHANGED <<analyses, files, last>>
          ELSE IF Strip(res.text) = <<>>
          THEN IF CommitOk(dberr)
               THEN /\ analyses' = [analyses EXCEPT ![rq.rec] = MarkFailed(@, NoReadableText)]
                    /\ req' = [req EXCEPT ![s] =
                                 [rq EXCEPT !.pc = "extract_except",
                                            !.exc = HTTPException("400", NoReadableText)]]
                    /\ UNCHANGED <<files, last>>
               ELSE /\ req' = [req EXCEPT ![s] = [rq EXCEPT !.pc = "extract_except",
                                                            !.exc = CommitError(dberr)]]
                    /\ UNCHANGED <<analyses, files, last>>
          ELSE IF CommitOk(dberr)
               THEN /\ analyses' = [analyses EXCEPT ![rq.rec] = MarkExtracted(@)]
                    /\ req' = [req EXCEPT ![s] = [rq EXCEPT !.pc = "crew"]]
                    /\ UNCHANGED <<files, last>>
               ELSE /\ Return(s, rq, ErrorResponse(CommitError(dberr)))
                    /\ UNCHANGED analyses
    /\ UNCHANGED <<users, now, started, got>>

\* The inner except of the extraction block: mark failed with str(e), commit,
\* re-raise.
ExtractExcept(s, dberr) ==
    /\ req[s].pc = "extract_except"
    /\ LET rq == req[s]
       IN IF CommitOk(dberr)
          THEN /\ analyses' = [analyses EXCEPT ![rq.rec] = MarkFailed(@, StrExc(rq.exc))]
               /\ Return(s, rq, ErrorResponse(rq.exc))
          ELSE /\ Return(s, rq, ErrorResponse(CommitError(dberr)))
               /\ UNCHANGED analyses
    /\ UNCHANGED <<users, now, started, got>>

\* run_crew finishes in its worker thread and the handler resumes: with a
\* report, the completion update is committed and the success payload
\* returned; with an exception (of run_crew or of the commit), the except of
\* the pipeline block is entered.
RunCrew(s, outcome, dberr) ==
    /\ req[s].pc = "crew"
    /\ LET rq == [req[s] EXCEPT !.crewCalls = @ + 1,
                                !.crewRaised = IF outcome.ok THEN <<>>
                                               ELSE <<outcome.exc.msg>>]
       IN IF ~ outcome.ok
          THEN /\ dberr = <<>>
               /\ req' = [req EXCEPT ![s] = [rq EXCEPT !.pc = "crew_except",
                                                       !.exc = outcome.exc]]
               /\ UNCHANGED <<analyses, files, last>>
          ELSE IF CommitOk(dberr)
          THEN /\ analyses' = [analyses EXCEPT ![rq.rec] = MarkCompleted(@, outcome.report)]
               /\ Return(s, rq, Response(200, "success", rq.rec))
          ELSE /\ req' = [req EXCEPT ![s] = [rq EXCEPT !.pc = "crew_except",
                                                       !.exc = CommitError(dberr)]]
               /\ UNCHANGED <<analyses, files, last>>
    /\ UNCHANGED <<users, now, started, got>>

\* The except of the pipeline block: mark failed with str(e), commit, raise 500.
PipelineFailed(s, dberr) ==
    /\ req[s].pc = "crew_except"
    /\ LET rq == req[s]
       IN IF CommitOk(dberr)
          THEN /\ analyses' = [analyses EXCEPT ![rq.rec] = MarkFailed(@, StrExc(rq.exc))]
               /\ Return(s, rq, ErrorResponse(HTTPException("500",
                                   <<"Error during analysis: ">> \o StrExc(rq.exc))))
          ELSE /\ Return(s, rq, ErrorResponse(CommitError(dberr)))
               /\ UNCHANGED analyses
    /\ UNCHANGED <<users, now, started, got>>

\* ------------------------------------------------- the other endpoints
\* Each handler below runs without an await: it is one step. Its answer
\* waits in got until the caller takes it.
Answer(op, args, code, payload) ==
    [op |-> op, args |-> args, code |-> code, payload |-> payload]

\* variant: the filter on analysis_id is missing
GetAnalysis_FirstRow(analysis_id) ==
    /\ got.op = ""
    /\ got' = IF Len(analyses) > 0
              THEN Answer("get_analysis_result", [analysis_id |-> analysis_id], 200,
                          [analysis_id |-> 1,
                           status |-> analyses[1].status,
                           progress |-> analyses[1].progress,
                           completed_at |-> analyses[1].completed_at,
                           error_message |-> analyses[1].error_message,
                           user |-> users[analyses[1].user_id].email])
              ELSE Answer("get_analysis_result", [analysis_id |-> analysis_id], 404,
                          [detail |-> "Analysis not found"])
    /\ UNCHANGED <<users, analyses, now, files, started, req, last>>

\* GET /analysis/{analysis_id}
GetAnalysis(analysis_id) ==
    /\ got.op = ""
    /\ got' = IF analysis_id \in 1..Len(analyses)
              THEN Answer("get_analysis_result", [analysis_id |-> analysis_id], 200,
                          [analysis_id |-> analysis_id,
                           status |-> analyses[analysis_id].status,
                           progress |-> analyses[analysis_id].progress,
                           completed_at |-> analyses[analysis_id].completed_at,
                           error_message |-> analyses[analysis_id].error_message,
                           user |-> users[analyses[analysis_id].user_id].email])
              ELSE Answer("get_analysis_result", [analysis_id |-> analysis_id], 404,
                          [detail |-> "Analysis not found"])
    /\ UNCHANGED <<users, analyses, now, files, started, req, last>>

\* POST /users/
CreateUser(email, full_name) ==
    /\ got.op = ""
    /\ LET existing_user == UserByEmail(email)
       IN IF existing_user # 0
          THEN /\ got' = Answer("create_user",
                                [email |-> email, full_name |-> full_name], 200,
                                [message |-> "User already exists",
                                 user_id |-> existing_user])
               /\ UNCHANGED users
          ELSE /\ users' = Append(users, [email |-> email, full_name |-> full_name])
               /\ got' = Answer("create_user",
                                [email |-> email, full_name |-> full_name], 200,
                                [message |-> "User created successfully",
                                 user_id |-> Len(users) + 1,
                                 email |-> email,
                                 full_name |-> full_name])
    /\ UNCHANGED <<analyses, now, files, started, req, last>>

\* the rows of a user, as ids
AnalysesOf(user) == { i \in 1..Len(analyses) : analyses[i].user_id = user }

\* order_by(created_at.desc()): the orders of the ids the store may return
NewestFirst(ids) ==
    { order \in [1..Cardinality(ids) -> ids] :
        /\ \A i, j \in DOMAIN order : i # j => order[i] # order[j]
        /\ \A i, j \in DOMAIN order :
              i < j => analyses[order[i]].created_at >= analyses[order[j]].created_at }

Min(a, b) == IF a < b THEN a ELSE b

\* GET /users/{user_id}/analyses
GetUserAnalyses(user_id, limit) ==
    /\ got.op = ""
    /\ IF user_id \in 1..Len(users)
       THEN \E order \in NewestFirst(AnalysesOf(user_id)) :
              LET page == SubSeq(order, 1, Min(limit, Len(order)))
              IN got' = Answer("get_user_analyses", [user_id |-> user_id, limit |-> limit], 200,
                               [user |-> users[user_id].email,
                                analyses |-> [k \in DOMAIN page |->
                                               [analysis_id |-> page[k],
                                                status |-> analyses[page[k]].status,
                                                progress |-> analyses[page[k]].progress]],
                                total_count |-> Len(page)])
       ELSE got' = Answer("get_user_analyses", [user_id |-> user_id, limit |-> limit], 404,
                         [detail |-> "User not found"])
    /\ UNCHANGED <<users, analyses, now, files, started, req, last>>

\* round(completed / total * 100, 2), in hundredths of a percent
SuccessRate(completed, total) ==
    IF total > 0 THEN (2 * 10000 * completed + total) \div (2 * total) ELSE 0

\* GET /stats
GetStats ==
    /\ got.op = ""
    /\ LET completed == Cardinality({ i \in 1..Len(analyses) : analyses[i].status = "completed" })
           failed == Cardinality({ i \in 1..Len(analyses) : analyses[i].status = "failed" })
       IN got' = Answer("get_system_stats", <<>>, 200,
                        [total_users |-> Len(users),
                         total_analyses |-> Len(analyses),
                         completed_analyses |-> completed,
                         failed_analyses |-> failed,
                         success_rate |-> SuccessRate(completed, Len(analyses))])
    /\ UNCHANGED <<users, analyses, now, files, started, req, last>>

\* the caller takes the answer
TakeAnswer ==
    /\ got.op # ""
    /\ got' = NoCall
    /\ UNCHANGED <<users, analyses, now, files, started, req, last>>

\* ---------------------------------------------------- DatabaseManager
\* Each operation runs in its own session (get_db_session): commit when the
\* body returns, rollback and re-raise when it raises. A returned None is
\* <<>>, any other returned value v is <<v>>.
Statuses == {"pending", "processing", "completed", "failed"}
ProgressArgs == {<<>>, <<50>>, <<100>>}

Returns(op, args, value) == Answer(op, args, 0, [raised |-> FALSE, value |-> value])
Raises(op, args, message) == Answer(op, args, 0, [raised |-> TRUE, value |-> message])

\* DatabaseManager.create_user
ManagerCreateUser(email, full_name) ==
    /\ got.op = ""
    /\ LET existing_user == UserByEmail(email)
           args == [email |-> email, full_name |-> full_name]
       IN IF existing_user # 0
          THEN /\ got' = Returns("DatabaseManager.create_user", args, <<existing_user>>)
               /\ UNCHANGED users
          ELSE /\ users' = Append(users, [email |-> email, full_name |-> full_name])
               /\ got' = Returns("DatabaseManager.create_user", args, <<Len(users) + 1>>)
    /\ UNCHANGED <<analyses, now, files, started, req, last>>

\* DatabaseManager.create_analysis_record
CreateAnalysisRecord(user_id, filename, content, query) ==
    /\ got.op = ""
    /\ Len(analyses) < MaxRecords
    /\ LET args == [user_id |-> user_id]
       IN IF user_id \notin 1..Len(users)
          THEN /\ got' = Raises("DatabaseManager.create_analysis_record", args, <<"User not found">>)
               /\ UNCHANGED analyses
          ELSE /\ analyses' = Append(analyses,
                    [ user_id |-> user_id,
                      original_filename |-> filename,
                      query |-> query,
                      file_size |-> Len(content),
                      file_hash |-> calculate_file_hash(content),
                      status |-> "pending",
                      progress |-> 0,
                      analysis_report |-> <<>>,
                      error_message |-> <<>>,
                      created_at |-> now,
                      completed_at |-> <<>> ])
               /\ got' = Returns("DatabaseManager.create_analysis_record", args, <<Len(analyses) + 1>>)
    /\ UNCHANGED <<users, now, files, started, req, last>>

\* DatabaseManager.update_analysis_status
UpdateAnalysisStatus(analysis_id, status, progress) ==
    /\ got.op = ""
    /\ got' = Returns("DatabaseManager.update_analysis_status",
                      [analysis_id |-> analysis_id], <<>>)
    /\ IF analysis_id \in 1..Len(analyses)
       THEN analyses' = [analyses EXCEPT ![analysis_id] =
              [@ EXCEPT !.status = status,
                        !.progress = IF progress # <<>> THEN progress[1] ELSE @,
                        !.completed_at = IF status = "completed" THEN <<now>> ELSE @]]
       ELSE UNCHANGED analyses
    /\ UNCHANGED <<users, now, files, started, req, last>>

\* DatabaseManager.save_analysis_results
SaveAnalysisResults(analysis_id, analysis_report) ==
    /\ got.op = ""
    /\ got' = Returns("DatabaseManager.save_analysis_results",
                      [analysis_id |-> analysis_id], <<>>)
    /\ IF analysis_id \in 1..Len(analyses)
       THEN analyses' = [analyses EXCEPT ![analysis_id] =
              [@ EXCEPT !.analysis_report = <<analysis_report>>,
                        !.status = "completed",
                        !.progress = Progress_Done,
                        !.completed_at = <<now>>]]
       ELSE UNCHANGED analyses
    /\ UNCHANGED <<users, now, files, started, req, last>>

\* DatabaseManager.get_analysis_result
ManagerGetAnalysisResult(analysis_id) ==
    /\ got.op = ""
    /\ got' = Returns("DatabaseManager.get_analysis_result",
                      [analysis_id |-> analysis_id],
                      IF analysis_id \in 1..Len(analyses)
                      THEN << [analysis_id |-> analysis_id,
                               status |-> analyses[analysis_id].status,
                               progress |-> analyses[analysis_id].progress,
                               completed_at |-> analyses[analysis_id].completed_at,
                               error_message |-> analyses[analysis_id].error_message] >>
                      ELSE <<>>)
    /\ UNCHANGED <<users, analyses, now, files, started, req, last>>

\* datetime.utcnow() moves on
Tick ==
    /\ now + HoursPerTick <= MaxTime
    /\ now' = now + HoursPerTick
    /\ UNCHANGED <<users, analyses, files, started, req, last, got>>

\* ------------------------------------------------------- specifications
NoDbError == <<>>
DbOutcomes == {NoDbError} \cup { <<m>> : m \in DbErrors }

\* the steps of the request in slot s after its arrival
Handle(s, dberr) ==
    \/ ReadBody(s, dberr)
    \/ DupCheck(s, dberr)
    \/ \E res \in ExtractResults : Extract(s, res, dberr)
    \/ ExtractExcept(s, dberr)
    \/ \E outcome \in CrewOutcomes : RunCrew(s, outcome, dberr)
    \/ PipelineFailed(s, dberr)

\* Of a list of interchangeable values, those seen so far and the first one
\* not seen.
SeenOrNext(list, seen) ==
    { list[i] : i \in { j \in DOMAIN list :
                          \/ list[j] \in seen
                          \/ \A k \in 1..(j - 1) : list[k] \in seen } }

\* the addresses and documents the store or a request in flight knows
SeenEmails == { users[i].email : i \in 1..Len(users) } \cup
              { req[t].email : t \in Slots }
SeenBodies == { b \in Contents :
                  \/ \E i \in 1..Len(analyses) :
                        analyses[i].file_hash = calculate_file_hash(b)
                  \/ \E t \in Slots : req[t].pc # "idle" /\ req[t].content = b }

\* A request arrives: from a known user or a new one, with a known document,
\* a new one or an empty body (new users are interchangeable, and so are new
\* documents: a newcomer gets the first unused one).
Arrive(s) ==
    /\ started < MaxRequests
    /\ \E filename \in Filenames,
          content \in { <<>> } \cup SeenOrNext(BodyList, SeenBodies),
          email \in SeenOrNext(EmailList, SeenEmails),
          user_name \in UserNames :
            Receive(s, filename, DefaultQuery, content, email, user_name)

\* every store write succeeds
Next ==
    \/ \E s \in Slots : Arrive(s)
    \/ \E s \in Slots : Handle(s, NoDbError)
    \/ Tick

Spec == Init /\ [][Next]_vars

\* the same with the scheduling the server guarantees: a request that has
\* arrived is run to its return
FairSpec == Spec /\ \A s \in Slots : WF_vars(Handle(s, NoDbError))

\* any db.commit() may raise
NextStoreFaults ==
    \/ \E s \in Slots : Arrive(s)
    \/ \E s \in Slots, dberr \in DbOutcomes : Handle(s, dberr)
    \/ Tick

SpecStoreFaults == Init /\ [][NextStoreFaults]_vars

\* Valid uploads only, under varying file names and queries.
Upload(s) ==
    /\ started < MaxRequests
    /\ \E filename \in PdfNames,
          query \in Queries,
          content \in SeenOrNext(BodyList, SeenBodies),
          email \in SeenOrNext(EmailList, SeenEmails),
          user_name \in UserNames :
            Receive(s, filename, query, content, email, user_name)

NextUploads ==
    \/ \E s \in Slots : Upload(s)
    \/ \E s \in Slots : Handle(s, NoDbError)
    \/ Tick

SpecUploads == Init /\ [][NextUploads]_vars

\* All endpoints. An answer is taken by its caller as soon as it is given.
Limits == {1, 20}

Call ==
    \/ \E analysis_id \in 1..(Len(analyses) + 1) : GetAnalysis(analysis_id)
    \/ \E email \in SeenOrNext(EmailList, SeenEmails), full_name \in UserNames :
          CreateUser(email, full_name)
    \/ \E user_id \in 1..(Len(users) + 1), limit \in Limits :
          GetUserAnalyses(user_id, limit)
    \/ GetStats

NextApi ==
    \/ /\ got.op = ""
       /\ \/ \E s \in Slots : Arrive(s)
          \/ \E s \in Slots : Handle(s, NoDbError)
          \/ Tick
    \/ Call
    \/ TakeAnswer

SpecApi == Init /\ [][NextApi]_vars

\* The DatabaseManager used on its own, with known and unknown identifiers.
NextManager ==
    \/ \E email \in SeenOrNext(EmailList, SeenEmails), full_name \in UserNames :
          ManagerCreateUser(email, full_name)
    \/ \E user_id \in 1..(Len(users) + 1), content \in SeenOrNext(BodyList, SeenBodies) :
          CreateAnalysisRecord(user_id, <<"a", ".", "p", "d", "f">>, content, DefaultQuery)
    \/ \E analysis_id \in 1..(Len(analyses) + 1),
          status \in Statuses, progress \in ProgressArgs :
          UpdateAnalysisStatus(analysis_id, status, progress)
    \/ \E analysis_id \in 1..(Len(analyses) + 1), analysis_report \in CrewReports :
          SaveAnalysisResults(analysis_id, analysis_report)
    \/ \E analysis_id \in 1..(Len(analyses) + 1) :
          ManagerGetAnalysisResult(analysis_id)
    \/ TakeAnswer

SpecManager == Init /\ [][NextManager]_vars

\* One user uploads one document again and again.
Resubmit(s) ==
    /\ started < MaxResubmits
    /\ \E user_name \in UserNames :
         Receive(s, <<"a", ".", "p", "d", "f">>, DefaultQuery,
                 BodyList[1], EmailList[1], user_name)

NextResubmit ==
    \/ \E s \in Slots : Resubmit(s)
    \/ \E s \in Slots : Handle(s, NoDbError)
    \/ Tick

SpecResubmit == Init /\ [][NextResubmit]_vars


\* ------------------------------------------------------------- properties
Rows == 1..Len(analyses)
SomeoneReturned == last.resp.code # 0
LastRow == analyses[last.rec]
HasLastRow == last.rec \in Rows

\* a file name ending in ".pdf", whatever the case of its letters
PdfName(fn) ==
    /\ Len(fn) >= 4
    /\ fn[Len(fn) - 3] = "."
    /\ fn[Len(fn) - 2] \in {"p", "P"}
    /\ fn[Len(fn) - 1] \in {"d", "D"}
    /\ fn[Len(fn)] \in {"f", "F"}

\* what C1 says of a returned request: with a .pdf name, a non-empty body and
\* no duplicate found, it has created exactly one record, whose committed
\* status is completed or failed
C1_OneTerminalRecord ==
    (last.dupMiss /\ PdfName(last.filename) /\ last.size > 0)
      => /\ last.inserts = 1
         /\ HasLastRow
         /\ LastRow.status \in {"completed", "failed"}

C2_SameUpload(s, i) ==
    /\ analyses[i].status = "completed"
    /\ users[analyses[i].user_id].email = req[s].email
    /\ analyses[i].file_hash = calculate_file_hash(req[s].content)

\* C2: when a request reaches its duplicate check and the store holds a
\* completed record of the same user (by email) with the same content hash,
\* created less than 24 hours ago, the request answers duplicate_found with
\* the id of such a record (of the one there is, when there is one) and the
\* number of records does not change.
C2_DuplicateOfCompleted ==
    [][ \A s \in Slots :
          ( /\ req[s].pc = "dupcheck"
            /\ req'[s] # req[s]
            /\ \E i \in Rows : /\ C2_SameUpload(s, i)
                               /\ now - analyses[i].created_at < WindowHours )
          => /\ last'.resp.status = "duplicate_found"
             /\ last'.resp.code = 200
             /\ last'.resp.analysis_id \in
                  { i \in Rows : /\ C2_SameUpload(s, i)
                                 /\ now - analyses[i].created_at <= WindowHours }
             /\ Len(analyses') = Len(analyses) ]_vars

C2_Witness ==
    /\ last.resp.status = "duplicate_found"
    /\ last.resp.analysis_id \in Rows
    /\ analyses[last.resp.analysis_id].status = "completed"
    /\ Len(analyses) = 1

\* C3: a request whose duplicate check finds a match returns at once: no
\* extraction, no pipeline run, no insert, every record and user row as it
\* was; and a request inserts a record only after its duplicate check found
\* nothing.
C3_ShortCircuitDoesNothing ==
    [][ /\ \A s \in Slots :
             ( /\ req[s].pc = "dupcheck"
               /\ req'[s] # req[s]
               /\ DuplicateMatches(req[s].user, calculate_file_hash(req[s].content)) # {} )
             => /\ req'[s].pc = "idle"
                /\ last'.resp.status = "duplicate_found"
                /\ last'.extractCalls = 0
                /\ last'.crewCalls = 0
                /\ last'.inserts = 0
                /\ analyses' = analyses
                /\ users' = users
        /\ \A s \in Slots : req'[s].inserts > 0 => req'[s].dupMiss
        /\ last'.inserts > 0 => last'.dupMiss ]_vars

C3_Witness ==
    /\ last.resp.status = "duplicate_found"
    /\ last.extractCalls = 0
    /\ last.crewCalls = 0
    /\ last.inserts = 0
    /\ last.rec = 0
    /\ files = {}

\* C4: every committed record has progress 100 exactly when its status is
\* completed.
C4_ProgressIffCompleted ==
    \A i \in Rows : (analyses[i].progress = 100) <=> (analyses[i].status = "completed")

C4_Witness ==
    \E i, j \in Rows :
       /\ analyses[i].status = "completed" /\ analyses[i].progress = 100
       /\ analyses[j].status = "processing" /\ analyses[j].progress = 30

\* C5: every committed record has completed_at set exactly when its status is
\* completed.
C5_CompletedAtIffCompleted ==
    \A i \in Rows : (analyses[i].completed_at # <<>>) <=> (analyses[i].status = "completed")

C5_Witness ==
    \E i, j \in Rows :
       /\ analyses[i].status = "completed" /\ analyses[i].completed_at # <<>>
       /\ analyses[j].status = "failed" /\ analyses[j].completed_at = <<>>

\* C6: every committed record has error_message set exactly when its status
\* is failed.
C6_ErrorMessageIffFailed ==
    \A i \in Rows : (analyses[i].error_message # <<>>) <=> (analyses[i].status = "failed")

C6_Witness ==
    \E i, j \in Rows :
       /\ analyses[i].status = "failed" /\ analyses[i].error_message # <<>>
       /\ analyses[j].status = "completed" /\ analyses[j].error_message = <<>>

\* C7: a request whose file name does not end in .pdf (in any case) or whose
\* body is empty is answered 400 and has inserted no record and no user and
\* called neither the extraction nor the pipeline.
C7_RejectedLeavesNothing ==
    (SomeoneReturned /\ (~ PdfName(last.filename) \/ last.size = 0))
      => /\ last.resp.code = 400
         /\ last.rec = 0
         /\ last.inserts = 0
         /\ last.userInserts = 0
         /\ last.extractCalls = 0
         /\ last.crewCalls = 0

C7_Witness ==
    /\ SomeoneReturned
    /\ PdfName(last.filename)
    /\ last.size = 0
    /\ last.resp.code = 400
    /\ users = <<>>

C10_EveryFailureMarksFailed ==
    (last.inserts > 0 /\ last.resp.code >= 400)
      => /\ HasLastRow
         /\ LastRow.status = "failed"
         /\ LastRow.error_message # <<>>

C12_Predicate(s, i) ==
    /\ users[analyses[i].user_id].email = req[s].email
    /\ analyses[i].file_hash = calculate_file_hash(req[s].content)
    /\ analyses[i].status = "completed"
    /\ analyses[i].created_at + WindowHours >= now

\* C12: a valid, non-empty request is answered duplicate_found, without an
\* insert, exactly when some record has the same owner and content hash, is
\* completed and is no older than 24 hours; in every other case (another
\* user's record, a processing or failed one, an older one) the request
\* inserts its own record, in status processing. File name and query play
\* no part.
C12_DuplicateIffPredicate ==
    [][ \A s \in Slots :
          (req[s].pc = "dupcheck" /\ req'[s] # req[s])
          => IF \E i \in Rows : C12_Predicate(s, i)
             THEN /\ req'[s].pc = "idle"
                  /\ last'.resp.status = "duplicate_found"
                  /\ analyses' = analyses
             ELSE /\ req'[s].pc # "idle"
                  /\ Len(analyses') = Len(analyses) + 1
                  /\ req'[s].rec = Len(analyses')
                  /\ analyses'[req'[s].rec].status = "processing"
                  /\ analyses'[req'[s].rec].file_hash = calculate_file_hash(req[s].content) ]_vars

C12_Witness ==
    /\ last.resp.status = "duplicate_found"
    /\ last.resp.analysis_id \in Rows
    /\ analyses[last.resp.analysis_id].original_filename # last.filename
    /\ analyses[last.resp.analysis_id].query = DefaultQuery
    /\ Strip(last.query) = <<"q">>
    /\ Len(analyses) = 1

\* record i was created no earlier than record j (ids grow with each insert)
C13_NoOlderThan(i, j) ==
    \/ analyses[i].created_at > analyses[j].created_at
    \/ analyses[i].created_at = analyses[j].created_at /\ i >= j

\* C13: the record named in a duplicate_found response is the most recently
\* created of the records matching the duplicate predicate at the check.
C13_MostRecentMatch ==
    [][ \A s \in Slots :
          ( /\ req[s].pc = "dupcheck"
            /\ req'[s].pc = "idle"
            /\ last'.resp.status = "duplicate_found" )
          => \A j \in Rows :
                C12_Predicate(s, j) => C13_NoOlderThan(last'.resp.analysis_id, j) ]_vars

\* records i and j analyse the same content for the same user
C17_SameUpload(i, j) ==
    /\ analyses[i].user_id = analyses[j].user_id
    /\ analyses[i].file_hash = analyses[j].file_hash

C14_GetAnalysisReflectsRecord ==
    [][ (got.op = "" /\ got'.op = "get_analysis_result")
        => /\ analyses' = analyses
           /\ users' = users
           /\ IF got'.args.analysis_id \in Rows
              THEN /\ got'.code = 200
                   /\ got'.payload.analysis_id = got'.args.analysis_id
                   /\ got'.payload.status = analyses[got'.args.analysis_id].status
                   /\ got'.payload.progress = analyses[got'.args.analysis_id].progress
              ELSE got'.code = 404 ]_vars

C14_Witness ==
    /\ got.op = "get_analysis_result"
    /\ got.code = 200
    /\ got.payload.status = "processing"
    /\ got.payload.progress = 30
    /\ \E s \in Slots : req[s].pc = "crew" /\ req[s].rec = got.args.analysis_id

\* C15: at most one user row exists per email; POST /users/ with an email the
\* store knows answers with that row's user_id and inserts nothing; and its
\* 200 payload carries user_id, email and full_name whether the user was
\* created or existed already.
C15_CreateOrReturn ==
    /\ [] \A i, j \in 1..Len(users) : users[i].email = users[j].email => i = j
    /\ [][ (got.op = "" /\ got'.op = "create_user")
           => /\ got'.code = 200
              /\ {"user_id", "email", "full_name"} \subseteq DOMAIN got'.payload
              /\ UserByEmail(got'.args.email) # 0
                   => /\ users' = users
                      /\ got'.payload.user_id = UserByEmail(got'.args.email) ]_vars

\* C16: a request inside its pipeline invocation holds nothing another
\* request needs: the step that dispatches run_crew ends before run_crew's
\* result is there, and while a request waits for that result every other
\* request in flight can take its next step, a new upload can be received
\* and GET /analysis can be answered.
C16_PipelineDoesNotBlock ==
    /\ [][ \A s \in Slots :
             (req[s].pc = "extract" /\ req'[s] # req[s])
               => /\ req'[s].crewCalls = 0
                  /\ req'[s].pc = "idle" => last'.crewCalls = 0 ]_vars
    /\ [] \A s \in Slots :
             req[s].pc = "crew"
               => /\ \A t \in Slots \ {s} :
                        IF req[t].pc = "idle"
                        THEN started < MaxRequests => ENABLED Arrive(t)
                        ELSE ENABLED Handle(t, NoDbError)
                  /\ got.op = "" => \A id \in Rows : ENABLED GetAnalysis(id)

C16_Witness ==
    \E s \in Slots :
       /\ req[s].pc = "crew"
       /\ last.resp.status = "success"
       /\ last.rec > req[s].rec
       /\ got.op = "get_analysis_result"
       /\ got.code = 200
       /\ got.payload.analysis_id = last.rec
       /\ got.payload.status = "completed"

\* C20: a record committed as completed or failed keeps that status in every
\* later step, of its own request or of any other call, and no step lowers
\* a record's committed progress.
C20_TerminalStatesAbsorbing ==
    [][ \A i \in Rows :
          /\ i \in 1..Len(analyses')
          /\ analyses[i].status \in {"completed", "failed"}
               => analyses'[i].status = analyses[i].status
          /\ analyses'[i].progress >= analyses[i].progress ]_vars

C20_Witness ==
    /\ got.op = "get_user_analyses"
    /\ got.code = 200
    /\ last.resp.code = 400
    /\ last.extracted = "blank"
    /\ HasLastRow
    /\ LastRow.status = "failed"
    /\ \E i \in Rows : analyses[i].status = "completed" /\ analyses[i].progress = 100

\* C18: after any sequence of create_analysis_record, update_analysis_status
\* and save_analysis_results every record has progress 100 exactly when it is
\* completed, and completed_at set exactly when it is completed.
C18_ManagerKeepsInvariant ==
    \A i \in Rows :
       /\ (analyses[i].progress = 100) <=> (analyses[i].status = "completed")
       /\ (analyses[i].completed_at # <<>>) <=> (analyses[i].status = "completed")

\* the identifier a DatabaseManager call was given resolves to no row
C19_Unresolved(call) ==
    \/ /\ call.op = "DatabaseManager.create_analysis_record"
       /\ call.args.user_id \notin 1..Len(users)
    \/ /\ call.op \in {"DatabaseManager.update_analysis_status",
                        "DatabaseManager.save_analysis_results",
                        "DatabaseManager.get_analysis_result"}
       /\ call.args.analysis_id \notin Rows

\* C19: a DatabaseManager operation given an identifier that resolves to no
\* row raises to its caller (it does not return normally) and leaves the
\* store as it was.
C19_UnresolvedIdIsAnError ==
    [][ (got.op = "" /\ got'.op # "" /\ C19_Unresolved(got'))
        => /\ got'.payload.raised
           /\ analyses' = analyses
           /\ users' = users ]_vars

====
